---- MODULE Spec2Model ----
(***************************************************************************)
(* A model of upload.py: the schedule repository (ServiceDataManager), the  *)
(* remote sync client (CompanionAPI) and the start-up of the main window   *)
(* (ServiceManagerGUI).                                                    *)
(*                                                                         *)
(* Python values are modelled as follows.                                  *)
(*   - a dict is a sequence of <<key, value>> pairs with distinct keys, in *)
(*     insertion order (Python dicts iterate in insertion order);          *)
(*   - a date string "DD/MM/YYYY" is the tuple <<DD, MM, YYYY>> of its     *)
(*     three numeric fields in textual order; strptime turns it into a     *)
(*     date [year, month, day], which compares by year, month, day;        *)
(*   - Optional[x] is <<>> for None and <<x>> for a value.                 *)
(***************************************************************************)
EXTENDS Integers, Sequences, FiniteSets, TLC

VARIABLES
    data,          \* ServiceDataManager.data: the loaded schedule document
    op,            \* the method of the object under study called last
    arg,           \* its argument (or the environment input it read)
    ret,           \* its return value
    companion_ip,  \* CompanionAPI.companion_ip
    pc,            \* the place in the method that is running
    song_data,     \* update_service_data: the field mapping given
    service_date,  \* update_service_data: the date given
    idx,           \* update_service_data: the position of the loop in song_data
    errors,        \* update_service_data: the error list
    net,           \* the network calls attempted by the running method, in order
    config,        \* Config.config: the settings the Config object holds
    config_file,   \* uploadsettings.ini, as it is on disk
    schedule_file, \* <SaveFolderPath>/selections.json, as it is on disk
    data_manager,  \* ServiceManagerGUI.data_manager
    api,           \* ServiceManagerGUI.api
    date_var,      \* the date selected in the dropdown
    date_options,  \* the values offered by the dropdown
    song_vars,     \* the six fields displayed
    feedback,      \* the text of the feedback label
    current_service_label,  \* the text of the current service label
    refresh_visible,        \* whether the Refresh Data button is shown
    upload_button,          \* the state of the Activate Service button
    activity,      \* what the Activate command run last did, in order
    settings_dialog,        \* whether a settings dialog is open
    dialog_new_ip, \* CompanionConnectionDialog.new_ip
    probed,        \* the calls of test_connection made so far
    events,        \* the dialogs that start-up has shown
    last_message,  \* the title of the message box shown last
    app_pc         \* the place of the application in its start-up and run

repoVars == <<data, op, arg, ret>>

apiVars == <<companion_ip, pc, song_data, service_date, idx, errors, net>>

guiVars ==
    <<data_manager, api, date_var, date_options, song_vars, feedback,
      current_service_label, refresh_visible, upload_button>>

appVars ==
    <<config, config_file, schedule_file, guiVars, settings_dialog,
      dialog_new_ip, probed, events, last_message, activity, app_pc>>

vars == <<repoVars, apiVars, appVars>>

----------------------------------------------------------------------------
(* Bounds of the model *)

\* the longest schedule document (number of dates)
MaxDocLen == 3

----------------------------------------------------------------------------
(* Python helpers *)

None == <<>>

Some(x) == <<x>>

Range(s) == {s[i] : i \in 1..Len(s)}

\* dict.keys(), in insertion order
DictKeys(d) == [i \in 1..Len(d) |-> d[i][1]]

\* key in dict
DictHas(d, k) == \E i \in 1..Len(d) : d[i][1] = k

\* dict.get(k, default)
DictGet(d, k, default) ==
    IF DictHas(d, k)
    THEN d[CHOOSE i \in 1..Len(d) : d[i][1] = k][2]
    ELSE default

\* datetime.strptime(x, '%d/%m/%Y') on a well-formed string: the first
\* field is the day, the second the month, the third the year
strptime(x) == [year |-> x[3], month |-> x[2], day |-> x[1]]

\* date.__lt__: by year, then month, then day
DateLT(a, b) ==
    \/ a.year < b.year
    \/ a.year = b.year /\ a.month < b.month
    \/ a.year = b.year /\ a.month = b.month /\ a.day < b.day

\* date.__ge__
DateGE(a, b) == ~DateLT(a, b)

\* sorted(s, key=...) as a permutation of the indexes of s, ks[i] being the
\* key of s[i]: a stable insertion sort (Python's sort is stable)
RECURSIVE SortIdx(_, _)
SortIdx(ks, n) ==
    IF n = 0 THEN <<>>
    ELSE LET prev == SortIdx(ks, n - 1)
             p == Cardinality({j \in 1..(n - 1) : ~DateLT(ks[n], ks[j])})
         IN SubSeq(prev, 1, p) \o <<n>> \o SubSeq(prev, p + 1, n - 1)

sorted(s, ks) ==
    LET perm == SortIdx(ks, Len(s))
    IN [i \in 1..Len(s) |-> s[perm[i]]]

\* a list comprehension with a condition: the elements of s whose index
\* satisfies keep, in order
RECURSIVE FilterIdx(_, _, _)
FilterIdx(s, keep, n) ==
    IF n = 0 THEN <<>>
    ELSE IF keep[n] THEN Append(FilterIdx(s, keep, n - 1), s[n])
         ELSE FilterIdx(s, keep, n - 1)

----------------------------------------------------------------------------
(* The inputs: date strings, dates of "today", service records *)

\* "DD/MM/YYYY" keys; their textual order (day first) differs from their
\* calendar order
DateStrings ==
    { <<1, 1, 2024>>, <<15, 1, 2024>>, <<1, 12, 2024>>,
      <<15, 12, 2024>>, <<1, 1, 2025>>, <<15, 6, 2025>> }

\* datetime.today().date(): before all keys, equal to a key, between keys,
\* after all keys
Todays ==
    { [year |-> 2023, month |-> 12, day |-> 31],
      [year |-> 2024, month |-> 12, day |-> 1],
      [year |-> 2024, month |-> 12, day |-> 2],
      [year |-> 2025, month |-> 6, day |-> 16] }

\* extract_song_data.song_keys
song_keys ==
    << "song1", "song2", "song3", "start", "end", "communion",
       "song1path", "song2path", "song3path", "startpath", "endpath",
       "communionpath" >>

\* service records of the schedule file: an empty one, one with a
\* recognized and an unrecognized field, one with every recognized field
\* (one of them the stored placeholder) in another order than song_keys
EmptyRecord == <<>>

PartialRecord ==
    << <<"notes", "bring flowers">>, <<"song1", "Amazing Grace">> >>

FullRecord ==
    << <<"communionpath", "C:/m/c.mp4">>, <<"endpath", "C:/m/Outro.XSPF">>,
       <<"startpath", "C:/m/Intro.mp4">>, <<"song3path", "C:/m/Song C.mp4">>,
       <<"song2path", "C:/m/Song B.mp4">>, <<"song1path", "C:/m/Song A.xspf">>,
       <<"communion", "none">>, <<"end", "Outro.XSPF">>,
       <<"start", " Intro.mp4 ">>, <<"song3", "Song C.mp4">>,
       <<"song2", "Song B.mp4">>, <<"song1", "Song A.xspf">>,
       <<"theme", "Advent">> >>

Records == {EmptyRecord, PartialRecord, FullRecord}

\* the schedule documents: dicts from date strings to records
Documents ==
    UNION { { d \in [1..n -> DateStrings \X Records] :
                \A i, j \in 1..n : d[i][1] = d[j][1] => i = j }
            : n \in 0..MaxDocLen }

----------------------------------------------------------------------------
(* ServiceDataManager *)

\* a sort of the keys as text (day first) instead of as dates
get_sorted_dates_textual(d) ==
    sorted(DictKeys(d),
           [i \in 1..Len(d) |->
               [year |-> d[i][1][1], month |-> d[i][1][2], day |-> d[i][1][3]]])

get_sorted_dates(d) ==
    sorted(DictKeys(d), [i \in 1..Len(d) |-> strptime(d[i][1])])

\* today's service left out (> instead of >=)
find_nearest_upcoming_service_strict(d, today) ==
    LET future_events ==
            FilterIdx(d, [i \in 1..Len(d) |-> DateLT(today, strptime(d[i][1]))],
                      Len(d))
        by_date ==
            sorted(future_events,
                   [i \in 1..Len(future_events) |-> strptime(future_events[i][1])])
    IN IF future_events # <<>> THEN Some(by_date[1]) ELSE None

find_nearest_upcoming_service(d, today) ==
    LET future_events ==
            FilterIdx(d, [i \in 1..Len(d) |-> DateGE(strptime(d[i][1]), today)],
                      Len(d))
        by_date ==
            sorted(future_events,
                   [i \in 1..Len(future_events) |-> strptime(future_events[i][1])])
    IN IF future_events # <<>> THEN Some(by_date[1]) ELSE None

\* an empty default instead of the placeholder
extract_song_data_empty_default(event_data) ==
    [i \in 1..Len(song_keys) |->
        <<song_keys[i], DictGet(event_data, song_keys[i], "")>>]

extract_song_data(event_data) ==
    [i \in 1..Len(song_keys) |->
        <<song_keys[i], DictGet(event_data, song_keys[i], "none")>>]

get_service_data(d, date_str) ==
    extract_song_data(DictGet(d, date_str, <<>>))

----------------------------------------------------------------------------
(* The repository under study: a document drawn from Documents, and one of *)
(* its three read operations applied to it (they leave the document as it  *)
(* is, so a second call would see what the first saw)                      *)

\* display value of a field not yet displayed (an empty StringVar)
NoDisplay == [text |-> "", playlist |-> FALSE]

\* the application's state while no ServiceManagerGUI exists
AppAbsent ==
    /\ config = [save_folder |-> "", companion_ip |-> "", show_refresh |-> "False"]
    /\ config_file = None
    /\ schedule_file = [state |-> "missing", doc |-> <<>>]
    /\ data_manager = None
    /\ api = None
    /\ date_var = <<>>
    /\ date_options = <<>>
    /\ song_vars = [i \in 1..6 |-> NoDisplay]
    /\ feedback = ""
    /\ current_service_label = ""
    /\ refresh_visible = FALSE
    /\ upload_button = "normal"
    /\ settings_dialog = FALSE
    /\ dialog_new_ip = None
    /\ probed = {}
    /\ events = {}
    /\ last_message = ""
    /\ activity = <<>>
    /\ app_pc = "absent"

\* the sync client's state while no CompanionAPI exists or runs
ApiAbsent ==
    /\ companion_ip = ""
    /\ pc = "idle"
    /\ song_data = <<>>
    /\ service_date = <<>>
    /\ idx = 0
    /\ errors = <<>>
    /\ net = <<>>

RepoInit ==
    /\ data \in Documents
    /\ op = "init"
    /\ arg = None
    /\ ret = None
    /\ ApiAbsent
    /\ AppAbsent

GetSortedDates ==
    /\ op = "init"
    /\ op' = "get_sorted_dates"
    /\ arg' = None
    /\ ret' = get_sorted_dates(data)
    /\ UNCHANGED <<data, apiVars, appVars>>

FindNearestUpcomingService ==
    \E today \in Todays :
        /\ op = "init"
        /\ op' = "find_nearest_upcoming_service"
        /\ arg' = Some(today)
        /\ ret' = find_nearest_upcoming_service(data, today)
        /\ UNCHANGED <<data, apiVars, appVars>>

GetServiceData ==
    \E date_str \in DateStrings :
        /\ op = "init"
        /\ op' = "get_service_data"
        /\ arg' = Some(date_str)
        /\ ret' = get_service_data(data, date_str)
        /\ UNCHANGED <<data, apiVars, appVars>>

RepoNext ==
    \/ GetSortedDates
    \/ FindNearestUpcomingService
    \/ GetServiceData

SpecRepo == RepoInit /\ [][RepoNext]_vars

----------------------------------------------------------------------------
(* Claims about the repository *)

\* the calendar position of a "DD/MM/YYYY" key, read off its text
KeyOrdinal(x) == x[3] * 10000 + x[2] * 100 + x[1]

\* the calendar position of a date
DateOrdinal(t) == t.year * 10000 + t.month * 100 + t.day

\* C1: find_nearest_upcoming_service returns the entry of the document with
\* the least calendar date among those on or after today, and None when the
\* document is empty or every date is before today.
C1_NearestUpcoming ==
    op = "find_nearest_upcoming_service" =>
        LET today == arg[1]
            upcoming == {i \in 1..Len(data) :
                            KeyOrdinal(data[i][1]) >= DateOrdinal(today)}
        IN IF upcoming = {}
           THEN ret = None
           ELSE /\ Len(ret) = 1
                /\ \E i \in upcoming :
                      /\ ret[1] = data[i]
                      /\ \A j \in upcoming :
                            KeyOrdinal(data[i][1]) <= KeyOrdinal(data[j][1])

\* C1 witness: three dates, one past, one today and one later; today's
\* entry, which is not the first one inserted, is returned.
C1_Witness ==
    /\ op = "find_nearest_upcoming_service"
    /\ Len(data) = 3
    /\ ret # None
    /\ ret[1] = data[3]
    /\ KeyOrdinal(ret[1][1]) = DateOrdinal(arg[1])
    /\ KeyOrdinal(data[1][1]) > DateOrdinal(arg[1])
    /\ KeyOrdinal(data[2][1]) < DateOrdinal(arg[1])

\* C2: get_service_data returns exactly the twelve recognized keys, each
\* with the record's stored value when the record has the field and with
\* "none" when it has not; a date that is no key counts as an empty record.
C2_FieldsTotal ==
    op = "get_service_data" =>
        LET date_str == arg[1]
            rec == IF \E i \in 1..Len(data) : data[i][1] = date_str
                   THEN data[CHOOSE i \in 1..Len(data) : data[i][1] = date_str][2]
                   ELSE <<>>
        IN /\ Len(ret) = 12
           /\ {ret[i][1] : i \in 1..Len(ret)} = Range(song_keys)
           /\ ~ \E i \in 1..Len(ret) : ret[i][1] \in {"notes", "theme"}
           /\ \A i \in 1..Len(ret) :
                 \/ \E j \in 1..Len(rec) :
                       rec[j][1] = ret[i][1] /\ rec[j][2] = ret[i][2]
                 \/ /\ \A j \in 1..Len(rec) : rec[j][1] # ret[i][1]
                    /\ ret[i][2] = "none"

\* C2 witness: the date's record has a recognized field and an unrecognized
\* one; the stored song1 is returned and song2 is the placeholder.
C2_Witness ==
    /\ op = "get_service_data"
    /\ \E i \in 1..Len(data) :
          /\ data[i][1] = arg[1]
          /\ \E j \in 1..Len(data[i][2]) : data[i][2][j][1] = "notes"
    /\ ret[1] = <<"song1", "Amazing Grace">>
    /\ ret[2] = <<"song2", "none">>

\* C3: get_sorted_dates returns the keys of the document, each once, in
\* non-decreasing calendar order, whatever their insertion order; the empty
\* document gives the empty sequence.
C3_SortedDates ==
    op = "get_sorted_dates" =>
        /\ Len(ret) = Len(data)
        /\ Range(ret) = {data[i][1] : i \in 1..Len(data)}
        /\ \A i, j \in 1..Len(ret) :
              i < j => KeyOrdinal(ret[i]) <= KeyOrdinal(ret[j])
        /\ (data = <<>> => ret = <<>>)

\* C3 witness: three keys inserted out of order, whose calendar order is
\* not the order of their text.
C3_Witness ==
    /\ op = "get_sorted_dates"
    /\ Len(data) = 3
    /\ ret # DictKeys(data)
    /\ ret[1][1] > ret[2][1]
    /\ KeyOrdinal(data[1][1]) > KeyOrdinal(data[3][1])

----------------------------------------------------------------------------
(* CompanionAPI *)

\* the port of the sync target
CompanionPort == 8000

\* CompanionAPI.variable_map
variable_map ==
    << <<"song1", "9amSong1">>, <<"song2", "9amSong2">>,
       <<"song3", "9amSong3">>, <<"start", "9amStart">>,
       <<"end", "9amEnd">>, <<"communion", "9amCommunion">>,
       <<"song1path", "9amSong1Path">>, <<"song2path", "9amSong2Path">>,
       <<"song3path", "9amSong3Path">>, <<"startpath", "9amStartPath">>,
       <<"endpath", "9amEndPath">>, <<"communionpath", "9amCommunionPath">> >>

\* the outcome of a network call: it returns (a response with a status
\* code, for an HTTP call) or raises an exception of some class
Returns(status) == [raises |-> "", status_code |-> status]

Raises(cls) == [raises |-> cls, status_code |-> 0]

\* the class an except clause sees: socket.error is OSError, the classes of
\* requests derive from requests.RequestException
ExcBase(cls) ==
    CASE cls \in {"ConnectionRefusedError", "socket.timeout", "socket.gaierror"}
            -> "socket.error"
      [] cls \in {"requests.ConnectionError", "requests.Timeout"}
            -> "requests.RequestException"
      [] OTHER -> cls

\* socket.create_connection((companion_ip, 8000), timeout=3): connected,
\* port closed, no answer in time, host unknown or unreachable
ConnectOutcomes ==
    { Returns(0), Raises("ConnectionRefusedError"), Raises("socket.timeout"),
      Raises("socket.gaierror") }

\* requests.get / requests.post
HttpOutcomes ==
    { Returns(200), Returns(204), Returns(404), Returns(500),
      Raises("requests.ConnectionError"), Raises("requests.Timeout") }

\* except (socket.error, requests.RequestException) of test_connection
test_connection_except == {"socket.error", "requests.RequestException"}

\* except requests.RequestException of update_service_data
update_service_data_except == {"requests.RequestException"}

\* a call of the log. A connect or a GET is logged with the class raised
\* and the status returned; the response of a POST is thrown away by
\* update_service_data, which sees of a POST only whether it raised a
\* RequestException, and that is what its log entry keeps
NetCall(call, host, variable, value, outcome) ==
    [ call |-> call, host |-> host, port |-> CompanionPort,
      variable |-> variable, value |-> value,
      raised |-> IF call = "POST" THEN ExcBase(outcome.raises)
                 ELSE outcome.raises,
      status_code |-> IF call = "POST" THEN 0 ELSE outcome.status_code ]

\* any status but 200 taken for success
StatusAny(response) == TRUE

\* response.status_code == 200
StatusIs200(response) == response.status_code = 200

\* the items of the mapping walked backwards
LoopItemReversed(sd, i) == sd[Len(sd) + 1 - i]

\* for key, value in song_data.items(): the i-th item
LoopItem(sd, i) == sd[i]

\* the hosts a CompanionAPI is made for
Hosts == {"192.168.1.20", "companion.local"}

\* the longest field mapping given to update_service_data besides the
\* twelve-field mappings of get_service_data
MaxMapLen == 2

\* the keys of those mappings: two of the table and one that is not
MapKeys == {"song1", "communionpath", "notes"}

\* the field mappings given to update_service_data: what get_service_data
\* returns for the records, and short mappings in any key order
SongDataInputs ==
    { extract_song_data(r) : r \in Records }
    \cup UNION { { m \in [1..n -> MapKeys \X {"Amazing Grace"}] :
                      \A i, j \in 1..n : m[i][1] = m[j][1] => i = j }
                 : n \in 0..MaxMapLen }

\* the dates given to update_service_data
ServiceDates == { <<1, 12, 2024>> }

ApiInit ==
    /\ data = <<>>
    /\ op = "init"
    /\ arg = None
    /\ ret = None
    /\ companion_ip \in Hosts
    /\ pc = "idle"
    /\ song_data = <<>>
    /\ service_date = <<>>
    /\ idx = 0
    /\ errors = <<>>
    /\ net = <<>>
    /\ AppAbsent

(* test_connection *)

CallTestConnection ==
    /\ pc = "idle"
    /\ op' = "test_connection"
    /\ pc' = "tc_connect"
    /\ UNCHANGED <<data, arg, ret, companion_ip, song_data, service_date,
                   idx, errors, net,
                   appVars>>

\* with socket.create_connection(...): pass
TcConnect ==
    /\ pc = "tc_connect"
    /\ \E o \in ConnectOutcomes :
          /\ net' = Append(net, NetCall("connect", companion_ip, "", "", o))
          /\ IF o.raises = ""
             THEN pc' = "tc_get" /\ UNCHANGED ret
             ELSE IF ExcBase(o.raises) \in test_connection_except
                  THEN pc' = "done" /\ ret' = Some(FALSE)
                  ELSE pc' = "raised" /\ UNCHANGED ret
    /\ UNCHANGED <<data, op, arg, companion_ip, song_data, service_date,
                   idx, errors,
                   appVars>>

\* response = requests.get(url, timeout=3); return status_code == 200
TcGet ==
    /\ pc = "tc_get"
    /\ \E o \in HttpOutcomes :
          /\ net' = Append(net, NetCall("GET", companion_ip, "ServiceDate", "", o))
          /\ IF o.raises = ""
             THEN pc' = "done" /\ ret' = Some(StatusIs200(o))
             ELSE IF ExcBase(o.raises) \in test_connection_except
                  THEN pc' = "done" /\ ret' = Some(FALSE)
                  ELSE pc' = "raised" /\ UNCHANGED ret
    /\ UNCHANGED <<data, op, arg, companion_ip, song_data, service_date,
                   idx, errors,
                   appVars>>

(* update_service_data *)

CallUpdateServiceData ==
    /\ pc = "idle"
    /\ \E sd \in SongDataInputs, d \in ServiceDates :
          /\ song_data' = sd
          /\ service_date' = d
    /\ op' = "update_service_data"
    /\ errors' = <<>>
    /\ idx' = 0
    /\ pc' = "usd_date"
    /\ UNCHANGED <<data, arg, ret, companion_ip, net,
                   appVars>>

\* the date's write is recorded as sent but its failure is dropped
UsdPostDateUnrecorded ==
    /\ pc = "usd_date"
    /\ \E o \in HttpOutcomes :
          /\ net' = Append(net, NetCall("POST", companion_ip, "ServiceDate",
                                        service_date, o))
          /\ pc' = "usd_fields"
          /\ idx' = 1
          /\ UNCHANGED errors
    /\ UNCHANGED <<data, op, arg, ret, companion_ip, song_data, service_date,
                   appVars>>

\* try: requests.post(.../ServiceDate/value?value=...) except: errors.append
UsdPostDate ==
    /\ pc = "usd_date"
    /\ \E o \in HttpOutcomes :
          /\ net' = Append(net, NetCall("POST", companion_ip, "ServiceDate",
                                        service_date, o))
          /\ IF o.raises = ""
             THEN pc' = "usd_fields" /\ idx' = 1 /\ UNCHANGED errors
             ELSE IF ExcBase(o.raises) \in update_service_data_except
                  THEN /\ errors' = Append(errors, "ServiceDate")
                       /\ pc' = "usd_fields"
                       /\ idx' = 1
                  ELSE pc' = "raised" /\ UNCHANGED <<idx, errors>>
    /\ UNCHANGED <<data, op, arg, ret, companion_ip, song_data, service_date,
                   appVars>>

\* the batch given up at the first field that fails
UsdFieldAbortOnError ==
    /\ pc = "usd_fields"
    /\ idx <= Len(song_data)
    /\ LET key == LoopItem(song_data, idx)[1]
           value == LoopItem(song_data, idx)[2]
       IN \/ /\ DictHas(variable_map, key)
             /\ \E o \in HttpOutcomes :
                   /\ net' = Append(net, NetCall("POST", companion_ip,
                                   DictGet(variable_map, key, ""), value, o))
                   /\ IF o.raises = ""
                      THEN idx' = idx + 1 /\ UNCHANGED errors
                      ELSE /\ errors' = Append(errors,
                                               DictGet(variable_map, key, ""))
                           /\ idx' = Len(song_data) + 1
             /\ UNCHANGED pc
          \/ /\ ~DictHas(variable_map, key)
             /\ idx' = idx + 1
             /\ UNCHANGED <<pc, errors, net>>
    /\ UNCHANGED <<data, op, arg, ret, companion_ip, song_data, service_date,
                   appVars>>

\* one turn of the loop: var_name = variable_map.get(key); if var_name:
\* try: requests.post(.../{var_name}/value?value=...) except: errors.append
UsdField ==
    /\ pc = "usd_fields"
    /\ idx <= Len(song_data)
    /\ LET key == LoopItem(song_data, idx)[1]
           value == LoopItem(song_data, idx)[2]
       IN \/ /\ DictHas(variable_map, key)
             /\ \E o \in HttpOutcomes :
                   /\ net' = Append(net, NetCall("POST", companion_ip,
                                   DictGet(variable_map, key, ""), value, o))
                   /\ IF o.raises = ""
                      THEN idx' = idx + 1 /\ UNCHANGED <<pc, errors>>
                      ELSE IF ExcBase(o.raises) \in update_service_data_except
                           THEN /\ errors' = Append(errors,
                                                DictGet(variable_map, key, ""))
                                /\ idx' = idx + 1
                                /\ UNCHANGED pc
                           ELSE pc' = "raised" /\ UNCHANGED <<idx, errors>>
          \/ /\ ~DictHas(variable_map, key)
             /\ idx' = idx + 1
             /\ UNCHANGED <<pc, errors, net>>
    /\ UNCHANGED <<data, op, arg, ret, companion_ip, song_data, service_date,
                   appVars>>

\* return errors
UsdReturn ==
    /\ pc = "usd_fields"
    /\ idx > Len(song_data)
    /\ ret' = Some(errors)
    /\ pc' = "done"
    /\ UNCHANGED <<data, op, arg, companion_ip, song_data, service_date,
                   idx, errors, net,
                   appVars>>

ApiNext ==
    \/ CallTestConnection
    \/ TcConnect
    \/ TcGet
    \/ CallUpdateServiceData
    \/ UsdPostDate
    \/ UsdField
    \/ UsdReturn

SpecApi == ApiInit /\ [][ApiNext]_vars

----------------------------------------------------------------------------
(* Claims about the sync client *)

\* the remote variable of the i-th item of the mapping given
RemoteName(i) == DictGet(variable_map, song_data[i][1], "")

\* the items of the mapping given whose key is in the table
MappedItems == {i \in 1..Len(song_data) : DictHas(variable_map, song_data[i][1])}

\* C4: with the twelve fields of get_service_data and every call failing,
\* update_service_data raises nothing and returns a list of 13 errors.
C4_AllFailThirteen ==
    ( /\ op = "update_service_data"
      /\ DictKeys(song_data) = song_keys
      /\ \A n \in 1..Len(net) : net[n].raised # "" )
    => /\ pc # "raised"
       /\ pc = "done" => Len(ret[1]) = 13

\* C4 witness: the call has returned after 13 writes that all failed.
C4_Witness ==
    /\ op = "update_service_data"
    /\ pc = "done"
    /\ DictKeys(song_data) = song_keys
    /\ Len(net) = 13
    /\ \A n \in 1..Len(net) : net[n].raised # ""

\* C5: when update_service_data has returned, the date and each item whose
\* key is in the table have been written exactly once, nothing else has
\* been written, and the list returned names, in order, the remote variables
\* of the calls that failed, one entry for each.
C5_EachWriteOnce ==
    (op = "update_service_data" /\ pc = "done") =>
        /\ Len(net) = 1 + Cardinality(MappedItems)
        /\ Cardinality({n \in 1..Len(net) :
                           /\ net[n].call = "POST"
                           /\ net[n].variable = "ServiceDate"
                           /\ net[n].value = service_date}) = 1
        /\ \A i \in MappedItems :
              Cardinality({n \in 1..Len(net) :
                              /\ net[n].call = "POST"
                              /\ net[n].variable = RemoteName(i)
                              /\ net[n].value = song_data[i][2]}) = 1
        /\ \A n \in 1..Len(net) :
              \/ net[n].variable = "ServiceDate"
              \/ \E i \in MappedItems : net[n].variable = RemoteName(i)
        /\ ret = Some(FilterIdx([n \in 1..Len(net) |-> net[n].variable],
                                [n \in 1..Len(net) |-> net[n].raised # ""],
                                Len(net)))

\* C5 witness: the mapping has a key outside the table and one inside; the
\* date's write failed, the field's write was still made and succeeded.
C5_Witness ==
    /\ op = "update_service_data"
    /\ pc = "done"
    /\ Len(song_data) = 2
    /\ Cardinality(MappedItems) = 1
    /\ Len(net) = 2
    /\ net[1].raised # ""
    /\ net[2].raised = ""
    /\ ret = Some(<<"ServiceDate">>)

\* the remote variables of the items of the mapping given whose key is in
\* the table, in the order of the mapping
MappedNamesInOrder ==
    FilterIdx([i \in 1..Len(song_data) |-> RemoteName(i)],
              [i \in 1..Len(song_data) |-> DictHas(variable_map, song_data[i][1])],
              Len(song_data))

\* C6: at every point of update_service_data the first call attempted is the
\* write of ServiceDate, and the calls after it are field writes that follow
\* the order of the mapping given, also when the date's write failed.
C6_DateFirstThenMappingOrder ==
    op = "update_service_data" =>
        LET expected == MappedNamesInOrder
        IN /\ net # <<>> =>
                 net[1].call = "POST" /\ net[1].variable = "ServiceDate"
           /\ Len(net) <= 1 + Len(expected)
           /\ \A n \in 2..Len(net) :
                 net[n].call = "POST" /\ net[n].variable = expected[n - 1]

\* C6 witness: the date's write failed and the two fields, given in another
\* order than that of the table, were then written in the order given.
C6_Witness ==
    /\ op = "update_service_data"
    /\ pc = "done"
    /\ DictKeys(song_data) = <<"communionpath", "song1">>
    /\ Len(net) = 3
    /\ net[1].variable = "ServiceDate"
    /\ net[1].raised # ""
    /\ net[2].variable = "9amCommunionPath"
    /\ net[3].variable = "9amSong1"

\* C7: test_connection raises nothing; it returns true exactly when the
\* connection to host:8000 was made and the GET of ServiceDate that followed
\* returned status 200; the GET is attempted only after a connection made.
C7_ProbeResult ==
    op = "test_connection" =>
        /\ pc # "raised"
        /\ \A n \in 1..Len(net) :
              net[n].call = "GET" =>
                 /\ n = 2
                 /\ net[1].call = "connect"
                 /\ net[1].raised = ""
        /\ pc = "done" =>
              /\ Len(ret) = 1
              /\ ret[1] <=> /\ Len(net) = 2
                            /\ net[1].call = "connect"
                            /\ net[1].host = companion_ip
                            /\ net[1].port = 8000
                            /\ net[1].raised = ""
                            /\ net[2].call = "GET"
                            /\ net[2].variable = "ServiceDate"
                            /\ net[2].raised = ""
                            /\ net[2].status_code = 200

\* C7 witness: the port is closed; false is returned and no GET was made.
C7_Witness ==
    /\ op = "test_connection"
    /\ pc = "done"
    /\ ret = Some(FALSE)
    /\ Len(net) = 1
    /\ net[1].raised = "ConnectionRefusedError"

----------------------------------------------------------------------------
(* Config *)

\* configparser.ConfigParser() interpolates: what set() accepts (a "%" that
\* is not doubled raises ValueError) and what get() returns of a stored
\* value ("%%" reads as "%")
before_set(value) == value \notin {"C:/100%", "C:/50%", "C:/a%b", "fe80::1%eth0"}

before_get(value) ==
    CASE value = "C:/50%%" -> "C:/50%"
      [] value = "C:/a%%%%b" -> "C:/a%%b"
      [] value = "C:/a%%b" -> "C:/a%b"
      [] OTHER -> value

get_save_folder(cfg) == before_get(cfg.save_folder)

get_companion_ip(cfg) == before_get(cfg.companion_ip)

\* config.getboolean('UI', 'ShowRefreshButton')
get_show_refresh_button(cfg) == cfg.show_refresh = "True"

\* str(show_refresh)
str_bool(b) == IF b THEN "True" ELSE "False"

\* whether update_settings raises (ValueError of one of its set() calls)
update_settings_raises(folder, ip) == ~before_set(folder) \/ ~before_set(ip)

\* the settings the Config object holds after update_settings: its three
\* set() calls in order, up to the first that raises
update_settings(cfg, folder, ip, show_refresh) ==
    IF ~before_set(folder) THEN cfg
    ELSE IF ~before_set(ip) THEN [cfg EXCEPT !.save_folder = folder]
    ELSE [cfg EXCEPT !.save_folder = folder,
                     !.companion_ip = ip,
                     !.show_refresh = str_bool(show_refresh)]

is_valid(cfg) == get_save_folder(cfg) # "" /\ get_companion_ip(cfg) # ""

\* the settings file at the start of the process: the default one written
\* by _ensure_config_exists, or one of an earlier run
Configs ==
    [ save_folder : {"", "C:/CCM", "C:/a%%%%b"},
      companion_ip : {"", "192.168.1.20"},
      show_refresh : {"True", "False"} ]

----------------------------------------------------------------------------
(* The schedule file and its load *)

\* the longest schedule document of the file the application reads
MaxAppDocLen == 2

\* the entries of those documents: three dates, each with its record
AppEntries ==
    { << <<15, 1, 2024>>, PartialRecord >>,
      << <<1, 12, 2024>>, FullRecord >>,
      << <<1, 1, 2025>>, EmptyRecord >> }

AppDocuments ==
    UNION { { d \in [1..n -> AppEntries] :
                \A i, j \in 1..n : d[i][1] = d[j][1] => i = j }
            : n \in 0..MaxAppDocLen }

\* selections.json: missing, not JSON, or a document
FileStates ==
    { [state |-> "missing", doc |-> <<>>],
      [state |-> "unparsable", doc |-> <<>>] }
    \cup { [state |-> "json", doc |-> d] : d \in AppDocuments }

\* the longest schedule document of the file while the window is in use
MaxWindowDocLen == 1

\* selections.json as the running application finds it
WindowFileStates == {f \in FileStates : Len(f.doc) <= MaxWindowDocLen}

\* ServiceDataManager.load_data on a manager holding old_data: whether it
\* succeeded, and the data held afterwards
load_data(old_data, file) ==
    IF file.state = "json"
    THEN [ok |-> TRUE, data |-> file.doc]
    ELSE [ok |-> FALSE, data |-> old_data]

\* ServiceDataManager(json_path): data = {} and one load_data
ServiceDataManager(file) == [data |-> load_data(<<>>, file).data]

----------------------------------------------------------------------------
(* Texts: the strings the display code takes apart, and those typed *)

\* str.strip()
strip(t) ==
    CASE t = " " -> ""
      [] t = " Intro.mp4 " -> "Intro.mp4"
      [] t = " D:/Media " -> "D:/Media"
      [] t = "companion.local " -> "companion.local"
      [] OTHER -> t

\* os.path.splitext(t): <<root, ext>>
splitext(t) ==
    CASE t = "Song A.xspf" -> <<"Song A", ".xspf">>
      [] t = "Song B.mp4" -> <<"Song B", ".mp4">>
      [] t = "Song C.mp4" -> <<"Song C", ".mp4">>
      [] t = "Intro.mp4" -> <<"Intro", ".mp4">>
      [] t = "Outro.XSPF" -> <<"Outro", ".XSPF">>
      [] t = "C:/m/c.mp4" -> <<"C:/m/c", ".mp4">>
      [] t = "C:/m/Outro.XSPF" -> <<"C:/m/Outro", ".XSPF">>
      [] t = "C:/m/Intro.mp4" -> <<"C:/m/Intro", ".mp4">>
      [] t = "C:/m/Song C.mp4" -> <<"C:/m/Song C", ".mp4">>
      [] t = "C:/m/Song B.mp4" -> <<"C:/m/Song B", ".mp4">>
      [] t = "C:/m/Song A.xspf" -> <<"C:/m/Song A", ".xspf">>
      [] OTHER -> <<t, "">>

\* str.lower() of an extension
lower(t) == IF t = ".XSPF" THEN ".xspf" ELSE t

\* the save folders typed into the settings dialog
FolderTexts == {"", " D:/Media ", "C:/100%"}

\* the hosts typed into the settings and the reconnect dialog
IpTexts == {" ", "companion.local ", "fe80::1%eth0"}

----------------------------------------------------------------------------
(* The settings file: uploadsettings.ini as configparser writes and reads it *)

\* RawConfigParser.optionxform: option names are kept in lower case
optionxform(name) ==
    CASE name = "SaveFolderPath" -> "savefolderpath"
      [] name = "CompanionIP" -> "companionip"
      [] name = "ShowRefreshButton" -> "showrefreshbutton"

\* the options of the file, in the order of their sections
ConfigOptions == <<"SaveFolderPath", "CompanionIP", "ShowRefreshButton">>

\* _save_config: the file written, one line "name = value" for each option,
\* here the pair of the name and the text after " = "
_save_config(cfg) ==
    Some([i \in 1..3 |->
            << optionxform(ConfigOptions[i]),
               CASE i = 1 -> cfg.save_folder
                 [] i = 2 -> cfg.companion_ip
                 [] i = 3 -> cfg.show_refresh >>])

\* _ensure_config_exists: a missing file is written with the defaults
_ensure_config_exists(file) ==
    IF file = None
    THEN _save_config([save_folder |-> "", companion_ip |-> "",
                       show_refresh |-> "False"])
    ELSE file

\* _load_config: config.read(), which strips the value of each line
_load_config(file) ==
    [ save_folder |-> strip(DictGet(file[1], optionxform("SaveFolderPath"), "")),
      companion_ip |-> strip(DictGet(file[1], optionxform("CompanionIP"), "")),
      show_refresh |-> strip(DictGet(file[1], optionxform("ShowRefreshButton"), "")) ]

\* Config(): the object made and the file it leaves
Config(file) ==
    [ config |-> _load_config(_ensure_config_exists(file)),
      file |-> _ensure_config_exists(file) ]

\* the file after update_settings on a Config holding cfg: written by
\* _save_config unless a set() raised before
update_settings_file(cfg, file, folder, ip, show_refresh) ==
    IF update_settings_raises(folder, ip) THEN file
    ELSE _save_config(update_settings(cfg, folder, ip, show_refresh))

----------------------------------------------------------------------------
(* ServiceManagerGUI: its handlers as functions of the window's state g *)

Gui ==
    [ data_manager |-> data_manager, api |-> api, date_var |-> date_var,
      date_options |-> date_options, song_vars |-> song_vars,
      feedback |-> feedback, current_service_label |-> current_service_label,
      refresh_visible |-> refresh_visible, upload_button |-> upload_button ]

\* the window is g (in an initial condition)
GuiIs(g) ==
    /\ data_manager = g.data_manager
    /\ api = g.api
    /\ date_var = g.date_var
    /\ date_options = g.date_options
    /\ song_vars = g.song_vars
    /\ feedback = g.feedback
    /\ current_service_label = g.current_service_label
    /\ refresh_visible = g.refresh_visible
    /\ upload_button = g.upload_button

SetGui(g) ==
    /\ data_manager' = g.data_manager
    /\ api' = g.api
    /\ date_var' = g.date_var
    /\ date_options' = g.date_options
    /\ song_vars' = g.song_vars
    /\ feedback' = g.feedback
    /\ current_service_label' = g.current_service_label
    /\ refresh_visible' = g.refresh_visible
    /\ upload_button' = g.upload_button

\* the window after setup_gui
NewGui(cfg) ==
    [ data_manager |-> None, api |-> None, date_var |-> <<>>,
      date_options |-> <<>>, song_vars |-> [i \in 1..6 |-> NoDisplay],
      feedback |-> "", current_service_label |-> "",
      refresh_visible |-> get_show_refresh_button(cfg),
      upload_button |-> "normal" ]

\* the methods class ServiceManagerGUI defines
ServiceManagerGUI_methods ==
    { "__init__", "_handle_initial_setup", "_check_companion_connection",
      "_show_config_warning", "_initialize_components", "_refresh_components",
      "setup_gui", "_setup_menu", "_setup_main_content",
      "_update_refresh_button_visibility", "_load_initial_data",
      "on_date_change", "update_song_display", "_format_display_filename",
      "update_current_service_date", "upload_data", "_launch_vlc",
      "_open_vlc_folder", "refresh_data", "open_settings", "run" }

_initialize_components(g, cfg, file) ==
    IF get_save_folder(cfg) # "" /\ get_companion_ip(cfg) # ""
    THEN [g EXCEPT !.data_manager = Some(ServiceDataManager(file)),
                   !.api = Some([companion_ip |-> get_companion_ip(cfg)])]
    ELSE g

\* the keys of song_vars
song_var_keys == <<"song1", "song2", "song3", "start", "end", "communion">>

\* f"{key}path"
PathKey(key) ==
    CASE key = "song1" -> "song1path"
      [] key = "song2" -> "song2path"
      [] key = "song3" -> "song3path"
      [] key = "start" -> "startpath"
      [] key = "end" -> "endpath"
      [] key = "communion" -> "communionpath"

_format_display_filename(filename, path) ==
    IF filename = ""
    THEN [text |-> "-", playlist |-> FALSE]
    ELSE [ text |-> splitext(strip(filename))[1],
           playlist |-> lower(splitext(path)[2]) = ".xspf" ]

update_song_display(g, date_str) ==
    IF g.data_manager = None THEN g
    ELSE LET d == g.data_manager[1].data
             service_data == get_service_data(d, date_str)
             event_data == DictGet(d, date_str, <<>>)
         IN [g EXCEPT !.song_vars =
                [i \in 1..6 |->
                    _format_display_filename(
                        DictGet(service_data, song_var_keys[i], ""),
                        DictGet(event_data, PathKey(song_var_keys[i]), ""))]]

\* CompanionAPI.get_current_service_date, h being the outcome of its GET:
\* the body of the response, None after an exception or an error status
get_current_service_date(h) ==
    IF h.raises # "" \/ h.status_code >= 400 THEN None
    ELSE IF h.status_code = 200 THEN Some("01/12/2024") ELSE Some("")

\* what get_current_service_date can return
CurrentDates == {get_current_service_date(h) : h \in HttpOutcomes}

\* update_current_service_date, current_date being what
\* get_current_service_date returns when it is called
update_current_service_date(g, current_date) ==
    IF g.api = None
    THEN [g EXCEPT !.current_service_label = "API not configured"]
    ELSE IF current_date # None /\ current_date # Some("")
         THEN [g EXCEPT !.current_service_label = "Current Service Date"]
         ELSE [g EXCEPT !.current_service_label =
                            "Failed to fetch current service date"]

\* the fall-back taken from the order of the file instead of the sorted one
_load_initial_data_first_key(g, today, current_date) ==
    IF g.data_manager = None \/ g.data_manager[1].data = <<>>
    THEN [g EXCEPT !.feedback = "No service data found in selections.json."]
    ELSE LET d == g.data_manager[1].data
             options == get_sorted_dates(d)
             g1 == [g EXCEPT !.date_options = options]
             nearest_service == find_nearest_upcoming_service(d, today)
             g2 == IF nearest_service # None
                   THEN update_song_display(
                            [g1 EXCEPT !.date_var = nearest_service[1][1]],
                            nearest_service[1][1])
                   ELSE [update_song_display(
                             [g1 EXCEPT !.date_var = d[1][1]], d[1][1])
                         EXCEPT !.feedback =
                             "No upcoming service found. Defaulted to earliest date."]
         IN update_current_service_date(g2, current_date)

_load_initial_data(g, today, current_date) ==
    IF g.data_manager = None \/ g.data_manager[1].data = <<>>
    THEN [g EXCEPT !.feedback = "No service data found in selections.json."]
    ELSE LET d == g.data_manager[1].data
             options == get_sorted_dates(d)
             g1 == [g EXCEPT !.date_options = options]
             nearest_service == find_nearest_upcoming_service(d, today)
             g2 == IF nearest_service # None
                   THEN update_song_display(
                            [g1 EXCEPT !.date_var = nearest_service[1][1]],
                            nearest_service[1][1])
                   ELSE IF options # <<>>
                   THEN [update_song_display(
                             [g1 EXCEPT !.date_var = options[1]], options[1])
                         EXCEPT !.feedback =
                             "No upcoming service found. Defaulted to earliest date."]
                   ELSE g1
         IN update_current_service_date(g2, current_date)

refresh_data(g, file) ==
    IF g.data_manager = None
    THEN [g EXCEPT !.feedback = "Data manager not configured"]
    ELSE LET previous_date == g.date_var
             loaded == load_data(g.data_manager[1].data, file)
         IN IF loaded.ok
            THEN LET options == get_sorted_dates(loaded.data)
                     g1 == [g EXCEPT !.data_manager = Some([data |-> loaded.data]),
                                     !.date_options = options]
                     g2 == IF previous_date \in Range(options)
                           THEN update_song_display(
                                    [g1 EXCEPT !.date_var = previous_date],
                                    previous_date)
                           ELSE IF options # <<>>
                           THEN update_song_display(
                                    [g1 EXCEPT !.date_var = options[1]],
                                    options[1])
                           ELSE g1
                 IN [g2 EXCEPT !.feedback = "Data refreshed successfully"]
            ELSE [g EXCEPT !.feedback = "Failed to refresh data"]

_refresh_components(g, cfg, file, current_date) ==
    LET g1 == _initialize_components(g, cfg, file)
        g2 == [g1 EXCEPT !.refresh_visible = get_show_refresh_button(cfg)]
        g3 == refresh_data(g2, file)
    IN update_current_service_date(g3, current_date)

\* CompanionAPI.test_connection as a function of the outcomes of its two
\* network calls (the steps are TcConnect and TcGet)
test_connection(c, h) ==
    IF c.raises # "" THEN FALSE
    ELSE IF h.raises # "" THEN FALSE
    ELSE StatusIs200(h)

\* what test_connection can return
ProbeResults == {test_connection(c, h) : c \in ConnectOutcomes, h \in HttpOutcomes}

----------------------------------------------------------------------------
(* VLCLauncher *)

\* VLCLauncher.find_vlc_path.common_paths
common_paths ==
    << "C:/Program Files/VideoLAN/VLC/vlc.exe",
       "C:/Program Files (x86)/VideoLAN/VLC/vlc.exe",
       "C:/Users/USERNAME/AppData/Local/Programs/VideoLAN/VLC/vlc.exe" >>

\* find_vlc_path on a machine m: m.exists[i] says whether common_paths[i]
\* exists, m.on_path whether running "vlc --version" raises none of the
\* exceptions caught
find_vlc_path(m) ==
    IF \E i \in 1..Len(common_paths) : m.exists[i]
    THEN Some(common_paths[CHOOSE i \in 1..Len(common_paths) :
                              /\ m.exists[i]
                              /\ \A j \in 1..(i - 1) : ~m.exists[j]])
    ELSE IF m.on_path THEN Some("vlc")
    ELSE None

\* launch_vlc: m.popen_ok says whether subprocess.Popen returns
launch_vlc(m) ==
    IF find_vlc_path(m) = None THEN FALSE ELSE m.popen_ok

\* the machines an Activate command runs on, with the operator's answer to
\* "launch VLC manually?" and whether explorer opens a VLC folder
Machines ==
    { [exists |-> <<TRUE, FALSE, FALSE>>, on_path |-> FALSE, popen_ok |-> TRUE,
       answer_yes |-> FALSE, folder_opened |-> FALSE],
      [exists |-> <<FALSE, FALSE, FALSE>>, on_path |-> TRUE, popen_ok |-> TRUE,
       answer_yes |-> FALSE, folder_opened |-> FALSE],
      [exists |-> <<FALSE, TRUE, TRUE>>, on_path |-> FALSE, popen_ok |-> FALSE,
       answer_yes |-> TRUE, folder_opened |-> TRUE],
      [exists |-> <<FALSE, FALSE, FALSE>>, on_path |-> FALSE, popen_ok |-> TRUE,
       answer_yes |-> FALSE, folder_opened |-> FALSE],
      [exists |-> <<FALSE, FALSE, FALSE>>, on_path |-> FALSE, popen_ok |-> TRUE,
       answer_yes |-> TRUE, folder_opened |-> FALSE] }

----------------------------------------------------------------------------
(* update_service_data and upload_data as functions of what their calls meet *)

\* one thing an Activate command did: a call made or a message box shown
Did(what, detail) == [what |-> what, detail |-> detail]

\* one requests.post of update_service_data in its try, on the run r so far
\* (the calls made, the errors collected, the exception that left the method)
post(r, host, variable, value, o) ==
    IF r.raised # "" THEN r
    ELSE LET sent == [r EXCEPT !.net = Append(@, NetCall("POST", host,
                                                        variable, value, o))]
         IN IF o.raises = "" THEN sent
            ELSE IF ExcBase(o.raises) \in update_service_data_except
                 THEN [sent EXCEPT !.errors = Append(@, variable)]
                 ELSE [sent EXCEPT !.raised = o.raises]

RECURSIVE usd_loop(_, _, _, _, _)
\* for key, value in song_data.items(), from the i-th item on; outs[n] is
\* what the n-th POST of the call meets
usd_loop(host, sd, i, outs, r) ==
    IF i > Len(sd) \/ r.raised # "" THEN r
    ELSE LET key == LoopItem(sd, i)[1]
             value == LoopItem(sd, i)[2]
         IN IF DictHas(variable_map, key)
            THEN usd_loop(host, sd, i + 1, outs,
                          post(r, host, DictGet(variable_map, key, ""), value,
                               outs[Len(r.net) + 1]))
            ELSE usd_loop(host, sd, i + 1, outs, r)

\* CompanionAPI.update_service_data(song_data, service_date)
update_service_data(host, sd, date, outs) ==
    usd_loop(host, sd, 1, outs,
             post([net |-> <<>>, errors |-> <<>>, raised |-> ""],
                  host, "ServiceDate", date, outs[1]))

\* errors[:5]
first5(errs) == SubSeq(errs, 1, IF Len(errs) < 5 THEN Len(errs) ELSE 5)

\* _open_vlc_folder on machine m: what it shows
_open_vlc_folder(m) ==
    IF m.folder_opened THEN <<Did("explorer", <<>>)>>
    ELSE <<Did("VLC Not Found", <<>>)>>

\* _launch_vlc on the command c so far (the window c.g, what it did c.did)
_launch_vlc(c, m) ==
    LET tried == [c EXCEPT !.did = Append(@, Did("launch_vlc", <<>>))]
    IN IF launch_vlc(m)
       THEN [tried EXCEPT !.g.feedback = @ \o " VLC launched."]
       ELSE [tried EXCEPT !.did = Append(@, Did("VLC Launch Failed", <<>>))
                                 \o (IF m.answer_yes THEN _open_vlc_folder(m)
                                     ELSE <<>>)]

\* the try statement with an except clause that ends the handler, so that
\* the button is not given back
upload_data_try_no_finally(g, selected_date, service_data, r, current_date, m) ==
    LET pushed == Some([song_data |-> service_data,
                        service_date |-> selected_date, run |-> r])
        called == <<Did("update_service_data", <<>>)>>
    IN IF r.raised # ""
       THEN [g |-> [g EXCEPT !.upload_button = "disabled",
                             !.feedback = "Upload failed"],
             did |-> Append(called, Did("Error", <<>>)),
             push |-> pushed]
       ELSE LET warned == IF r.errors # <<>>
                          THEN Append(called, Did("Upload Warnings",
                                                  first5(r.errors)))
                          ELSE called
                g1 == [g EXCEPT !.upload_button = "disabled",
                                !.feedback = "Service activated!"]
                g2 == update_current_service_date(g1, current_date)
                c == _launch_vlc([g |-> g2, did |-> warned, push |-> pushed], m)
            IN [c EXCEPT !.g.upload_button = "normal"]

\* the try statement of upload_data, the button being disabled before it: r
\* is what the call of update_service_data did; except Exception when it
\* raised, and the button given back in finally
upload_data_try(g, selected_date, service_data, r, current_date, m) ==
    LET pushed == Some([song_data |-> service_data,
                        service_date |-> selected_date, run |-> r])
        called == <<Did("update_service_data", <<>>)>>
    IN IF r.raised # ""
       THEN [g |-> [g EXCEPT !.upload_button = "normal",
                             !.feedback = "Upload failed"],
             did |-> Append(called, Did("Error", <<>>)),
             push |-> pushed]
       ELSE LET warned == IF r.errors # <<>>
                          THEN Append(called, Did("Upload Warnings",
                                                  first5(r.errors)))
                          ELSE called
                g1 == [g EXCEPT !.upload_button = "disabled",
                                !.feedback = "Service activated!"]
                g2 == update_current_service_date(g1, current_date)
                c == _launch_vlc([g |-> g2, did |-> warned, push |-> pushed], m)
            IN [c EXCEPT !.g.upload_button = "normal"]

\* ServiceManagerGUI.upload_data on the window g: the window it leaves, what
\* it did in order, and the push it made (None when it made none)
upload_data(g, outs, current_date, m) ==
    IF g.api = None \/ g.data_manager = None
    THEN [g |-> g, did |-> <<Did("Error", <<>>)>>, push |-> None]
    ELSE upload_data_try(g, g.date_var,
             get_service_data(g.data_manager[1].data, g.date_var),
             update_service_data(g.api[1].companion_ip,
                 get_service_data(g.data_manager[1].data, g.date_var),
                 g.date_var, outs),
             current_date, m)

----------------------------------------------------------------------------
(* The application: main(), the start-up of ServiceManagerGUI, its dialogs *)
(* and the commands of its main window                                     *)

\* what the application leaves alone: the objects studied on their own
NoObjectUnderStudy ==
    /\ data = <<>>
    /\ op = "init"
    /\ ret = None
    /\ ApiAbsent

\* main() has made Config() and setup_gui() and is about to call
\* _handle_initial_setup
AppInit ==
    /\ NoObjectUnderStudy
    /\ arg = None
    /\ config \in Configs
    /\ config_file = _save_config(config)
    /\ schedule_file \in WindowFileStates
    /\ GuiIs(NewGui(config))
    /\ settings_dialog = FALSE
    /\ dialog_new_ip = None
    /\ probed = {}
    /\ events = {}
    /\ last_message = ""
    /\ activity = <<>>
    /\ app_pc = "handle_initial_setup"

\* _handle_initial_setup up to its call of _check_companion_connection,
\* whose body opens the CompanionConnectionDialog and waits for it
HandleInitialSetup ==
    /\ app_pc = "handle_initial_setup"
    /\ LET g == _initialize_components(Gui, config, schedule_file)
           warned == IF is_valid(config) THEN {} ELSE {"Configuration Missing"}
       IN /\ SetGui(g)
          /\ settings_dialog' = ~is_valid(config)
          /\ IF g.api # None
             THEN /\ events' = events \cup warned \cup {"Companion Connection Failed"}
                  /\ app_pc' = "reconnect_dialog"
             ELSE /\ events' = events \cup warned
                  /\ app_pc' = "load_initial_data"
    /\ UNCHANGED <<repoVars, apiVars, activity, config, config_file, schedule_file, dialog_new_ip,
                   probed, last_message>>

\* CompanionConnectionDialog.test_and_save
TestAndSave ==
    /\ app_pc = "reconnect_dialog"
    /\ \E text \in IpTexts, reachable \in ProbeResults :
          LET new_ip == strip(text)
          IN IF new_ip = ""
             THEN /\ last_message' = "Error"
                  /\ UNCHANGED <<config, config_file, dialog_new_ip, probed, app_pc>>
             ELSE /\ probed' = probed \cup
                         {[host |-> new_ip, result |-> reachable, by |-> "dialog"]}
                  /\ IF reachable
                     THEN /\ config' = update_settings(config,
                                           get_save_folder(config), new_ip,
                                           get_show_refresh_button(config))
                          /\ config_file' = update_settings_file(config,
                                                config_file,
                                                get_save_folder(config), new_ip,
                                                get_show_refresh_button(config))
                          /\ IF update_settings_raises(get_save_folder(config),
                                                       new_ip)
                             THEN /\ last_message' = "Error"
                                  /\ UNCHANGED <<dialog_new_ip, app_pc>>
                             ELSE /\ dialog_new_ip' = Some(new_ip)
                                  /\ last_message' = "Success"
                                  /\ app_pc' = "dialog_closed"
                     ELSE /\ last_message' = "Connection Failed"
                          /\ UNCHANGED <<config, config_file, dialog_new_ip, app_pc>>
    /\ UNCHANGED <<repoVars, apiVars, activity, schedule_file, guiVars, settings_dialog,
                   events>>

\* skip storing the host typed, unprobed, before it closes the dialog
SkipSavingIp ==
    /\ app_pc = "reconnect_dialog"
    /\ \E text \in IpTexts :
          /\ config' = update_settings(config, get_save_folder(config),
                                       strip(text),
                                       get_show_refresh_button(config))
          /\ config_file' = update_settings_file(config, config_file,
                                get_save_folder(config), strip(text),
                                get_show_refresh_button(config))
    /\ app_pc' = "dialog_closed"
    /\ UNCHANGED <<repoVars, apiVars, activity, schedule_file, guiVars,
                   settings_dialog, dialog_new_ip, probed, events, last_message>>

\* CompanionConnectionDialog.skip
Skip ==
    /\ app_pc = "reconnect_dialog"
    /\ app_pc' = "dialog_closed"
    /\ UNCHANGED <<repoVars, apiVars, activity, config, config_file, schedule_file, guiVars,
                   settings_dialog, dialog_new_ip, probed, events, last_message>>

\* the rest of _check_companion_connection, which returns None, and what
\* _handle_initial_setup does with it: "not None" holds, so the method
\* _prompt_for_companion_ip is called; a method the class does not define
\* raises AttributeError, which leaves __init__ and is caught by main()
CheckCompanionConnectionReturn ==
    /\ app_pc = "dialog_closed"
    /\ IF dialog_new_ip # None
       THEN SetGui(_initialize_components(Gui, config, schedule_file))
       ELSE UNCHANGED guiVars
    /\ IF "_prompt_for_companion_ip" \in ServiceManagerGUI_methods
       THEN app_pc' = "load_initial_data" /\ UNCHANGED <<events, last_message>>
       ELSE /\ events' = events \cup {"Fatal Error"}
            /\ last_message' = "Fatal Error"
            /\ app_pc' = "fatal"
    /\ UNCHANGED <<repoVars, apiVars, activity, config, config_file, schedule_file, settings_dialog,
                   dialog_new_ip, probed>>

\* _load_initial_data; today is read when the document is not empty
LoadInitialData ==
    /\ app_pc = "load_initial_data"
    /\ \E today \in Todays, current_date \in CurrentDates :
          /\ SetGui(_load_initial_data(Gui, today, current_date))
          /\ arg' = IF data_manager = None \/ data_manager[1].data = <<>>
                    THEN arg ELSE Some(today)
    /\ app_pc' = "setup_tail"
    /\ UNCHANGED <<data, op, ret, apiVars, activity, config, config_file, schedule_file,
                   settings_dialog, dialog_new_ip, probed, events, last_message>>

\* the lines of _handle_initial_setup after _load_initial_data (return
\* False without an api, else the result of test_connection), the return of
\* ServiceManagerGUI() and app.run()
HandleInitialSetupTail ==
    /\ app_pc = "setup_tail"
    /\ \E reachable \in ProbeResults :
          probed' = IF api = None THEN probed
                    ELSE probed \cup {[host |-> api[1].companion_ip,
                                       result |-> reachable,
                                       by |-> "startup"]}
    /\ app_pc' = "mainloop"
    /\ UNCHANGED <<repoVars, apiVars, activity, config, config_file, schedule_file, guiVars,
                   settings_dialog, dialog_new_ip, events, last_message>>

\* open_settings
OpenSettings ==
    /\ app_pc = "mainloop"
    /\ ~settings_dialog
    /\ settings_dialog' = TRUE
    /\ UNCHANGED <<repoVars, apiVars, activity, config, config_file, schedule_file, guiVars,
                   dialog_new_ip, probed, events, last_message, app_pc>>

\* SettingsDialog.save_settings, with _refresh_components as its callback;
\* a ValueError of update_settings leaves the handler and is reported by Tk
SaveSettings ==
    /\ app_pc = "mainloop"
    /\ settings_dialog
    /\ \E folder_text \in FolderTexts, ip_text \in IpTexts,
          show_refresh \in BOOLEAN :
          LET save_folder == strip(folder_text)
              ip == strip(ip_text)
              saved == update_settings(config, save_folder, ip, show_refresh)
          IN IF save_folder = "" \/ ip = ""
             THEN /\ last_message' = "Error"
                  /\ UNCHANGED <<config, config_file, guiVars, settings_dialog>>
             ELSE /\ config' = saved
                  /\ config_file' = update_settings_file(config, config_file,
                                        save_folder, ip, show_refresh)
                  /\ IF update_settings_raises(save_folder, ip)
                     THEN /\ last_message' = "Exception in Tkinter callback"
                          /\ UNCHANGED <<guiVars, settings_dialog>>
                     ELSE /\ \E current_date \in CurrentDates :
                               SetGui(_refresh_components(Gui, saved,
                                          schedule_file, current_date))
                          /\ last_message' = "Success"
                          /\ settings_dialog' = FALSE
    /\ UNCHANGED <<repoVars, apiVars, activity, schedule_file, dialog_new_ip, probed,
                   events, app_pc>>

\* the Cancel button of the settings dialog
CancelSettings ==
    /\ app_pc = "mainloop"
    /\ settings_dialog
    /\ settings_dialog' = FALSE
    /\ UNCHANGED <<repoVars, apiVars, activity, config, config_file, schedule_file, guiVars,
                   dialog_new_ip, probed, events, last_message, app_pc>>

\* the Refresh Data button: refresh_data
RefreshData ==
    /\ app_pc = "mainloop"
    /\ refresh_visible
    /\ SetGui(refresh_data(Gui, schedule_file))
    /\ UNCHANGED <<repoVars, apiVars, activity, config, config_file, schedule_file, settings_dialog,
                   dialog_new_ip, probed, events, last_message, app_pc>>

\* a date picked in the dropdown: on_date_change
OnDateChange ==
    /\ app_pc = "mainloop"
    /\ \E selected_date \in Range(date_options) :
          SetGui(update_song_display([Gui EXCEPT !.date_var = selected_date],
                                     selected_date))
    /\ UNCHANGED <<repoVars, apiVars, activity, config, config_file, schedule_file, settings_dialog,
                   dialog_new_ip, probed, events, last_message, app_pc>>

\* the number of POSTs of a push: the date and the twelve fields
PostsOfPush == 1 + Len(variable_map)

\* what the POSTs of one push meet, one outcome for each: all answered,
\* none answered, the date's alone unanswered, the six playlist paths'
\* unanswered behind error statuses, and an exception that is no
\* RequestException at the third
PushOutcomes ==
    { [n \in 1..PostsOfPush |-> Returns(200)],
      [n \in 1..PostsOfPush |-> Raises("requests.ConnectionError")],
      [n \in 1..PostsOfPush |->
          IF n = 1 THEN Raises("requests.Timeout") ELSE Returns(204)],
      [n \in 1..PostsOfPush |->
          IF n > 7 THEN Raises("requests.ConnectionError") ELSE Returns(500)],
      [n \in 1..PostsOfPush |->
          IF n = 3 THEN Raises("UnicodeError") ELSE Returns(200)] }

\* the titles of the message boxes of an Activate command
MessageTitles ==
    {"Error", "Upload Warnings", "VLC Launch Failed", "VLC Not Found"}

\* the title of the message box shown last by a command that did did
LastMessage(did, before) ==
    LET shown == {i \in 1..Len(did) : did[i].what \in MessageTitles}
    IN IF shown = {} THEN before
       ELSE did[CHOOSE i \in shown : \A j \in shown : j <= i].what

\* upload_data as a command of the main window, its POSTs meeting one of
\* outcomes, its GET answering one of dates, on one of machines
UploadData(outcomes, dates, machines) ==
    /\ app_pc = "mainloop"
    /\ \E outs \in outcomes, current_date \in dates, m \in machines :
          \E c \in {upload_data(Gui, outs, current_date, m)} :
             /\ SetGui(c.g)
             /\ activity' = c.did
             /\ last_message' = LastMessage(c.did, last_message)
             /\ IF c.push = None
                THEN UNCHANGED <<song_data, service_date, errors, net>>
                ELSE /\ song_data' = c.push[1].song_data
                     /\ service_date' = c.push[1].service_date
                     /\ errors' = c.push[1].run.errors
                     /\ net' = c.push[1].run.net
    /\ UNCHANGED <<repoVars, companion_ip, pc, idx, config, config_file,
                   schedule_file, settings_dialog, dialog_new_ip, probed,
                   events, app_pc>>

\* the Activate Service button, among the other commands of the window: on
\* a machine that has VLC, the playlist paths' POSTs unanswered
Activate ==
    UploadData({outs \in PushOutcomes :
                   outs[1].raises = "" /\ outs[PostsOfPush].raises # ""},
               CurrentDates,
               {m \in Machines : m.exists[1]})

\* selections.json is written, replaced or removed by its editor
ScheduleFileChanges ==
    /\ app_pc = "mainloop"
    /\ schedule_file' \in WindowFileStates \ {schedule_file}
    /\ UNCHANGED <<repoVars, apiVars, activity, config, config_file, guiVars, settings_dialog,
                   dialog_new_ip, probed, events, last_message, app_pc>>

Next ==
    \/ HandleInitialSetup
    \/ TestAndSave
    \/ Skip
    \/ CheckCompanionConnectionReturn
    \/ LoadInitialData
    \/ HandleInitialSetupTail
    \/ OpenSettings
    \/ SaveSettings
    \/ CancelSettings
    \/ RefreshData
    \/ OnDateChange
    \/ Activate
    \/ ScheduleFileChanges

Spec == AppInit /\ [][Next]_vars

(* _load_initial_data on its own: the window as _initialize_components      *)
(* leaves it, for every settings file and schedule file, and then the load *)

LoadInit ==
    /\ NoObjectUnderStudy
    /\ arg = None
    /\ config \in Configs
    /\ config_file = _save_config(config)
    /\ schedule_file \in FileStates
    /\ GuiIs(_initialize_components(NewGui(config), config, schedule_file))
    /\ settings_dialog = ~is_valid(config)
    /\ dialog_new_ip = None
    /\ probed = {}
    /\ events = IF is_valid(config) THEN {} ELSE {"Configuration Missing"}
    /\ last_message = ""
    /\ activity = <<>>
    /\ app_pc = "load_initial_data"

LoadNext == LoadInitialData

SpecLoad == LoadInit /\ [][LoadNext]_vars

(* upload_data on its own: the window as a settings save leaves it, or as  *)
(* start-up leaves it without settings, for every settings and schedule   *)
(* file; then Activate commands, whatever their calls meet, and date changes *)

ActivateInit ==
    /\ NoObjectUnderStudy
    /\ arg = None
    /\ config \in Configs
    /\ config_file = _save_config(config)
    /\ schedule_file \in FileStates
    /\ \E today \in Todays, current_date \in CurrentDates :
          GuiIs(IF is_valid(config)
                THEN _refresh_components(NewGui(config), config, schedule_file,
                                         current_date)
                ELSE _load_initial_data(NewGui(config), today, current_date))
    /\ settings_dialog = ~is_valid(config)
    /\ dialog_new_ip = None
    /\ probed = {}
    /\ events = IF is_valid(config) THEN {} ELSE {"Configuration Missing"}
    /\ last_message = ""
    /\ activity = <<>>
    /\ app_pc = "mainloop"

\* the Activate Service button, whatever the command meets
ActivateAnywhere == UploadData(PushOutcomes, CurrentDates, Machines)

ActivateNext ==
    \/ ActivateAnywhere
    \/ OnDateChange

SpecActivate == ActivateInit /\ [][ActivateNext]_vars

----------------------------------------------------------------------------
(* Claims about the start-up *)

\* start-up found valid settings and is past its connection check
PastConnectionCheck ==
    /\ app_pc \notin {"absent", "handle_initial_setup"}
    /\ "Configuration Missing" \notin events

\* C8: at start-up with valid settings the sync target is probed with
\* test_connection, and the IP-correction dialog is offered exactly when
\* that probe failed.
C8_DialogIffStartupProbeFailed ==
    PastConnectionCheck =>
        /\ \E p \in probed : p.by = "startup"
        /\ "Companion Connection Failed" \in events
              <=> \E p \in probed : p.by = "startup" /\ ~p.result

\* C9: a start-up whose sync target is unreachable is not fatal: main()
\* never shows its Fatal Error dialog, and once the operator has left the
\* IP-correction dialog start-up goes on to the initial load and the event
\* loop with the host it had.
C9_UnreachableNotFatal ==
    /\ "Fatal Error" \notin events
    /\ app_pc # "fatal"
    /\ (app_pc = "dialog_closed" /\ dialog_new_ip = None)
          => api = Some([companion_ip |-> get_companion_ip(config)])

\* the keys of the document the data manager holds
LoadedKeys ==
    IF data_manager = None THEN {}
    ELSE {data_manager[1].data[i][1] : i \in 1..Len(data_manager[1].data)}

\* C10: after the initial load of a document that is not empty, the date
\* selected is the least date on or after today when there is one, and else
\* the least date of the document, with the "defaulted to earliest" warning;
\* with no document or an empty one no date is selected and the "no data"
\* warning is shown.
C10_InitialSelection ==
    app_pc = "setup_tail" =>
        IF LoadedKeys = {}
        THEN /\ date_var = <<>>
             /\ feedback = "No service data found in selections.json."
        ELSE LET upcoming == {k \in LoadedKeys :
                                 KeyOrdinal(k) >= DateOrdinal(arg[1])}
             IN IF upcoming # {}
                THEN /\ date_var \in upcoming
                     /\ \A k \in upcoming : KeyOrdinal(date_var) <= KeyOrdinal(k)
                     /\ feedback = ""
                ELSE /\ date_var \in LoadedKeys
                     /\ \A k \in LoadedKeys : KeyOrdinal(date_var) <= KeyOrdinal(k)
                     /\ feedback =
                          "No upcoming service found. Defaulted to earliest date."

\* C10 witness: both dates of the document are past and the later one was
\* inserted first; the earlier one is selected and the warning is shown.
C10_Witness ==
    /\ app_pc = "setup_tail"
    /\ data_manager # None
    /\ Len(data_manager[1].data) = 2
    /\ KeyOrdinal(data_manager[1].data[1][1]) > KeyOrdinal(data_manager[1].data[2][1])
    /\ \A k \in LoadedKeys : KeyOrdinal(k) < DateOrdinal(arg[1])
    /\ date_var = data_manager[1].data[2][1]
    /\ feedback = "No upcoming service found. Defaulted to earliest date."

----------------------------------------------------------------------------
(* Config on its own: update_settings called with any strings and flag, and *)
(* then a second Config() made of the file                                 *)

\* the save folders and hosts update_settings is called with
SettingFolders == {"", "C:/CCM", " D:/Media ", "C:/100%", "C:/50%%"}

SettingHosts == {"", "192.168.1.20", "companion.local "}

\* the files Config() can find: none, or one that an earlier run wrote
ConfigFiles == {None} \cup {_save_config(c) : c \in Configs}

ConfigInit ==
    /\ NoObjectUnderStudy
    /\ arg = None
    /\ \E file \in ConfigFiles :
          /\ config = Config(file).config
          /\ config_file = Config(file).file
    /\ schedule_file = [state |-> "missing", doc |-> <<>>]
    /\ GuiIs(NewGui(config))
    /\ settings_dialog = FALSE
    /\ dialog_new_ip = None
    /\ probed = {}
    /\ events = {}
    /\ last_message = ""
    /\ activity = <<>>
    /\ app_pc = "absent"

\* Config.update_settings(save_folder, companion_ip, show_refresh)
UpdateSettings ==
    \E folder \in SettingFolders, ip \in SettingHosts, show_refresh \in BOOLEAN :
        /\ op \in {"init", "update_settings"}
        /\ op' = "update_settings"
        /\ arg' = Some(<<folder, ip, show_refresh>>)
        /\ ret' = IF update_settings_raises(folder, ip)
                  THEN Some("ValueError") ELSE None
        /\ config' = update_settings(config, folder, ip, show_refresh)
        /\ config_file' = update_settings_file(config, config_file,
                                               folder, ip, show_refresh)
        /\ UNCHANGED <<data, apiVars, activity, schedule_file, guiVars, settings_dialog,
                       dialog_new_ip, probed, events, last_message, app_pc>>

\* a second Config() reading the same file, and its three getters
FreshConfig ==
    /\ op = "update_settings"
    /\ op' = "Config"
    /\ LET fresh == Config(config_file)
       IN /\ ret' = Some(<< get_save_folder(fresh.config),
                            get_companion_ip(fresh.config),
                            get_show_refresh_button(fresh.config) >>)
          /\ config_file' = fresh.file
    /\ UNCHANGED <<data, arg, apiVars, activity, config, schedule_file, guiVars,
                   settings_dialog, dialog_new_ip, probed, events,
                   last_message, app_pc>>

ConfigNext ==
    \/ UpdateSettings
    \/ FreshConfig

SpecConfig == ConfigInit /\ [][ConfigNext]_vars

----------------------------------------------------------------------------
(* Claims about the settings *)

\* C11: after update_settings(folder, host, flag) has returned, whatever the
\* strings and the flag and whatever updates came before, a Config() made
\* afresh of the same file returns that folder, that host and that flag.
C11_SettingsRoundTrip ==
    (op = "Config" /\ ~update_settings_raises(arg[1][1], arg[1][2]))
        => ret = arg

----------------------------------------------------------------------------
(* Claims about the main window *)

\* the window shows no schedule: no date offered, none selected, no field
\* of a document displayed
EmptyScheduleShown ==
    /\ date_options = <<>>
    /\ date_var = <<>>
    /\ \A i \in 1..6 : song_vars[i] = NoDisplay

\* C12: when a load of the schedule failed (file missing or unparsable), at
\* start-up, on Refresh Data or after a settings change, the window shows a
\* warning and an empty schedule, and the application goes on running.
C12_LoadFailureEmptiesUI ==
    /\ (app_pc = "setup_tail" /\ data_manager # None
            /\ schedule_file.state # "json")
          => /\ EmptyScheduleShown
             /\ feedback = "No service data found in selections.json."
    /\ (app_pc = "mainloop" /\ feedback = "Failed to refresh data")
          => EmptyScheduleShown

\* a step changes the stored settings, in the Config object or in the file
StoreChanges == config' # config \/ config_file' # config_file

\* a step of the Save button of the settings dialog
SaveStep ==
    /\ app_pc = "mainloop"
    /\ settings_dialog
    /\ last_message' \in {"Success", "Exception in Tkinter callback"}

\* C13 as stated: the stored settings are changed by no step but a Save of
\* the settings dialog; Test & Save and Skip of the reconnect dialog,
\* start-up, refresh, date change and Activate leave them as they are.
C13_OnlySaveChangesStore ==
    [][StoreChanges => SaveStep]_vars

\* a step of the Test & Save button of the reconnect dialog whose probe
\* succeeded
TestAndSaveStep ==
    /\ app_pc = "reconnect_dialog"
    /\ \E p \in probed' \ probed : p.by = "dialog" /\ p.result

\* C13 as amended: the stored settings are changed only by a Save of the
\* settings dialog and by a Test & Save of the reconnect dialog whose probe
\* succeeded; a Test & Save with an empty host or a failing probe, Skip,
\* start-up, refresh, date change and Activate leave them as they are.
C13_OnlySaveAndTestAndSaveChangeStore ==
    [][StoreChanges => SaveStep \/ TestAndSaveStep]_vars

\* C13 witness: the reconnect dialog has saved the host it probed, the save
\* folder being the one of the file read at start-up.
C13_Witness ==
    /\ app_pc = "dialog_closed"
    /\ dialog_new_ip = Some("companion.local")
    /\ get_companion_ip(config) = "companion.local"
    /\ get_save_folder(config) = "C:/CCM"
    /\ config_file = _save_config(config)

\* C14: whatever initial load, date changes, refreshes and settings saves
\* have happened, the date selected in the window is empty or a key of the
\* document the data manager holds, so that Activate pushes no date which
\* that document does not contain.
C14_SelectedDateInDocument ==
    date_var = <<>> \/ date_var \in LoadedKeys

\* C15: a valid store stays valid at every step; a Save of the settings
\* dialog with an empty folder or host (after trimming) and a Test & Save
\* with an empty host or a failing probe leave the store as it is; a Test &
\* Save that succeeds changes the host alone, to a host that is not empty,
\* and keeps the save folder and the show-refresh flag.
C15_ValidStoreStaysValid ==
    [][/\ is_valid(config) => is_valid(config')
       /\ (SaveStep /\ last_message' = "Error") => ~StoreChanges
       /\ (app_pc = "reconnect_dialog" /\ ~TestAndSaveStep) => ~StoreChanges
       /\ (app_pc = "reconnect_dialog" /\ dialog_new_ip' # None)
             => /\ get_companion_ip(config') = dialog_new_ip'[1]
                /\ get_companion_ip(config') # ""
                /\ get_save_folder(config') = get_save_folder(config)
                /\ get_show_refresh_button(config')
                      = get_show_refresh_button(config)]_vars

----------------------------------------------------------------------------
(* Claims about Activate *)

\* the places in the last command of the calls of what
PlacesOf(what) == {i \in 1..Len(activity) : activity[i].what = what}

\* the last command's push returned its list of errors
PushReturned == PlacesOf("update_service_data") # {} /\ PlacesOf("Error") = {}

\* without API or data manager the command wrote nothing and launched nothing
NothingAttempted ==
    /\ net = <<>>
    /\ PlacesOf("update_service_data") = {}
    /\ PlacesOf("launch_vlc") = {}

\* the last command made its thirteen writes and then one launch attempt,
\* says activated, and warned of at most the first five errors if there
\* were any
LaunchedAfterPush ==
    /\ Len(net) = PostsOfPush
    /\ Cardinality(PlacesOf("launch_vlc")) = 1
    /\ \A i \in PlacesOf("launch_vlc") : i > 1
    /\ feedback \in {"Service activated!", "Service activated! VLC launched."}
    /\ errors # <<>> =>
          /\ PlacesOf("Upload Warnings") = {2}
          /\ Len(activity[2].detail) <= 5
          /\ activity[2].detail = SubSeq(errors, 1, Len(activity[2].detail))
          /\ Len(activity[2].detail) < 5 => activity[2].detail = errors
    /\ errors = <<>> => PlacesOf("Upload Warnings") = {}

====
